---- MODULE Spec2Model ----
(***************************************************************************)
(* A model of bill95.py: the 95th-percentile billing run.                  *)
(*                                                                         *)
(* Representation choices                                                  *)
(*  - A Python value that may be None is a sequence of length 0 or 1:      *)
(*    None is <<>>, the number x is <<x>>.                                 *)
(*  - A raw rate (bytes per second) is an integer.                         *)
(*  - A float holding Mbps is a record: u, the value the arithmetic aims   *)
(*    at, as an integer number of 1/MbpsUnits Mbps (fixed point), and      *)
(*    exact, whether the float64 is the double nearest to that value.      *)
(*    The binary error shows where it changes the output: in the two       *)
(*    decimals printed for a value halfway between two hundredths.         *)
(*  - A naive datetime is a record [year, month, day, sod, fold] (sod =    *)
(*    second of the day); microseconds are dropped (int() truncates        *)
(*    them).  The system clock is an instant, which datetime.now() reads   *)
(*    as the local time of the host.  The host's time zone is an input:    *)
(*    UTC, Europe/London or America/New_York with their daylight-saving    *)
(*    rules in force since 2007.                                           *)
(*  - A string that the program takes apart (ifAlias) is a sequence of     *)
(*    characters, each a one-character string; a character that has no     *)
(*    TLA+ escape is written as its Python escape ("\\x0b", "\\xa0").      *)
(***************************************************************************)
EXTENDS Integers, Sequences, FiniteSets, TLC

VARIABLES
    pc,                \* position of main(): "range","label","load","loop","done"
                       \* (or "call"/"returned" for a lone compute_95th call)
    prev,              \* args.prev
    clock,             \* the system clock: the instant, in seconds since the epoch
    tz,                \* the host's time zone
    ticks,             \* how often the clock advanced between the two reads
    start_ts, end_ts,  \* main: start_ts, end_ts
    month_label,       \* main: month_label
    rows,              \* what cur.fetchall() returned (kept for the claims)
    files,             \* the rrd paths for which os.path.exists is true
    customers,         \* main: customers, an insertion-ordered dict as a sequence
    ci, ri,            \* loop positions: customer index, rrd index
    combined_samples,  \* main: combined_samples of the customer in progress
    lines,             \* main: lines
    outcomes,          \* per customer, per rrd: the storage answer and what compute_95th did
    stdout,            \* everything print() wrote, in order
    stderr,            \* the traceback of an uncaught exception
    mail,              \* messages handed to send_email
    exit_code,         \* <<>> while running, <<n>> once the process ended
    fetch,             \* a lone compute_95th call: the answer of rrdtool.fetch
    ret                \* a lone compute_95th call: what it returned or raised

vars == <<pc, prev, clock, tz, ticks, start_ts, end_ts, month_label, rows, files,
          customers, ci, ri, combined_samples, lines, outcomes, stdout, stderr,
          mail, exit_code, fetch, ret>>

None == <<>>
Some(x) == <<x>>

Min(a, b) == IF a <= b THEN a ELSE b
Last(s) == s[Len(s)]

(***************************************************************************)
(* Bounds of the model.                                                    *)
(***************************************************************************)
MaxSamples == 3     \* rows in one storage answer (lone compute_95th calls)
MaxRows == 3        \* rows the directory query returns
MaxTicks == 1       \* seconds the clock may advance between the two clock reads
YearLo == 2023      \* first year of the system dates tried
YearSpan == 2       \* the years tried are YearLo .. YearLo + YearSpan

(***************************************************************************)
(* datetime: the calendar arithmetic of Python's datetime module.          *)
(***************************************************************************)
IsLeap(y) == (y % 4 = 0) /\ ((y % 100 # 0) \/ (y % 400 = 0))

DaysInMonth(y, m) ==
    IF m = 2 THEN (IF IsLeap(y) THEN 29 ELSE 28)
    ELSE IF m \in {4, 6, 9, 11} THEN 30 ELSE 31

DaysBeforeYear(y) ==
    (y - 1) * 365 + ((y - 1) \div 4) - ((y - 1) \div 100) + ((y - 1) \div 400)

RECURSIVE DaysBeforeMonth(_, _)
DaysBeforeMonth(y, m) ==
    IF m = 1 THEN 0 ELSE DaysBeforeMonth(y, m - 1) + DaysInMonth(y, m - 1)

\* date.toordinal(): 1 for 0001-01-01
ToOrdinal(y, m, d) == DaysBeforeYear(y) + DaysBeforeMonth(y, m) + d

\* date.fromordinal(n): the one (year, month, day) whose ordinal is n
FromOrdinal(n) ==
    LET y0 == (n * 400) \div 146097 + 1
        y == CHOOSE c \in (y0 - 1)..(y0 + 1) :
                 DaysBeforeYear(c) < n /\ n <= DaysBeforeYear(c + 1)
        r == n - DaysBeforeYear(y)
        m == CHOOSE c \in 1..12 :
                 /\ DaysBeforeMonth(y, c) < r
                 /\ r <= DaysBeforeMonth(y, c) + DaysInMonth(y, c)
    IN  <<y, m, r - DaysBeforeMonth(y, m)>>

\* date.weekday(): Monday is 0, Sunday is 6
Weekday(y, m, d) == (ToOrdinal(y, m, d) + 6) % 7

\* datetime.datetime(y, m, d): midnight, fold 0
DateTime(y, m, d) == [year |-> y, month |-> m, day |-> d, sod |-> 0, fold |-> 0]

\* datetime - timedelta(seconds=s), through ordinal days and seconds of day;
\* the result has fold 0
MinusSeconds(dt, s) ==
    LET total == dt.sod - s
        dayoff == IF total >= 0 THEN 0 ELSE ((-total) + 86399) \div 86400
        t == FromOrdinal(ToOrdinal(dt.year, dt.month, dt.day) - dayoff)
    IN  [year |-> t[1], month |-> t[2], day |-> t[3], sod |-> total + dayoff * 86400,
         fold |-> 0]

\* (dt - datetime(1970, 1, 1)) // timedelta(seconds=1)
NaiveSeconds(dt) ==
    (ToOrdinal(dt.year, dt.month, dt.day) - ToOrdinal(1970, 1, 1)) * 86400 + dt.sod

\* the naive datetime that is s seconds after 1970-01-01T00:00:00
NaiveDateTime(s) ==
    LET t == FromOrdinal(s \div 86400 + ToOrdinal(1970, 1, 1))
    IN  [year |-> t[1], month |-> t[2], day |-> t[3], sod |-> s % 86400, fold |-> 0]

\* the host's zone database: the zones tried
Zones == {"UTC", "Europe/London", "America/New_York"}

\* the last Sunday of a month, and the n-th Sunday of a month
LastSunday(y, m) == DaysInMonth(y, m) - ((Weekday(y, m, DaysInMonth(y, m)) + 1) % 7)
NthSunday(y, m, n) == 1 + ((6 - Weekday(y, m, 1)) % 7) + 7 * (n - 1)

\* the UTC instants at which the zone's summer time of year y starts and ends
\* (London: the last Sunday of March 01:00 UTC and the last Sunday of October
\* 01:00 UTC; New York: the second Sunday of March 07:00 UTC and the first
\* Sunday of November 06:00 UTC; UTC has none, its two instants coincide)
DstStart(zone, y) ==
    IF zone = "Europe/London"
    THEN NaiveSeconds(DateTime(y, 3, LastSunday(y, 3))) + 3600
    ELSE IF zone = "America/New_York"
    THEN NaiveSeconds(DateTime(y, 3, NthSunday(y, 3, 2))) + 7 * 3600
    ELSE NaiveSeconds(DateTime(y, 1, 1))

DstEnd(zone, y) ==
    IF zone = "Europe/London"
    THEN NaiveSeconds(DateTime(y, 10, LastSunday(y, 10))) + 3600
    ELSE IF zone = "America/New_York"
    THEN NaiveSeconds(DateTime(y, 11, NthSunday(y, 11, 1))) + 6 * 3600
    ELSE NaiveSeconds(DateTime(y, 1, 1))

\* seconds east of UTC in winter and in summer
WinterOffset(zone) == IF zone = "America/New_York" THEN -18000 ELSE 0
SummerOffset(zone) == IF zone = "UTC" THEN 0 ELSE WinterOffset(zone) + 3600

InSummer(zone, y, u) == DstStart(zone, y) <= u /\ u < DstEnd(zone, y)

\* seconds east of UTC that the zone keeps at the UTC instant u
UtcOffset(zone, u) ==
    IF InSummer(zone, NaiveDateTime(u).year, u)
    THEN SummerOffset(zone) ELSE WinterOffset(zone)

\* time.localtime(u) as naive seconds
LocalSeconds(zone, u) == u + UtcOffset(zone, u)

\* datetime.datetime.now() when the system clock is at the UTC instant u: the
\* local reading, with fold 1 in the second pass of an hour that the zone
\* repeats.  s is the reading as naive seconds and trans what the reading
\* gained over the one a day before, less that day; a negative trans is a
\* clock set back, and the reading is a second pass when the instant that
\* much earlier read the same
NowFold(zone, u, s, trans) ==
    IF trans < 0 /\ LocalSeconds(zone, u + trans) = s THEN 1 ELSE 0

NowAt(zone, u, s) ==
    [NaiveDateTime(s) EXCEPT
        !.fold = NowFold(zone, u, s, s - LocalSeconds(zone, u - 86400) - 86400)]

Now(zone, u) == NowAt(zone, u, LocalSeconds(zone, u))

\* int(datetime.timestamp()) of a naive datetime: the local time dt of the
\* host's zone as seconds since the epoch, found as datetime._mktime finds
\* it: t is the naive time as seconds, a the zone's offset at the instant t,
\* u1 = t - a the first guess and t1 its local time; when the offset b a day
\* before u1 (a day after it for fold 1), or the one t1 shows, differs from
\* a, u2 = t - b is the second guess; of two guesses that both miss, the
\* later one is taken for fold 0 and the earlier one for fold 1
MktimeSecondGuess(zone, t, fold, u1, t1, b) ==
    IF LocalSeconds(zone, t - b) = t THEN t - b
    ELSE IF t1 = t THEN u1
    ELSE IF fold = 0 THEN (IF u1 >= t - b THEN u1 ELSE t - b)
    ELSE (IF u1 <= t - b THEN u1 ELSE t - b)

MktimeProbe(zone, t, fold, a, u1, t1, probe) ==
    IF LocalSeconds(zone, probe) - probe = a THEN u1
    ELSE MktimeSecondGuess(zone, t, fold, u1, t1, LocalSeconds(zone, probe) - probe)

MktimeFirstGuess(zone, t, fold, a, u1, t1) ==
    IF t1 = t
    THEN MktimeProbe(zone, t, fold, a, u1, t1,
                     IF fold = 0 THEN u1 - 86400 ELSE u1 + 86400)
    ELSE MktimeSecondGuess(zone, t, fold, u1, t1, t1 - u1)

Mktime(zone, t, fold, a) ==
    MktimeFirstGuess(zone, t, fold, a, t - a, LocalSeconds(zone, t - a))

Timestamp(zone, dt) ==
    Mktime(zone, NaiveSeconds(dt), dt.fold,
           LocalSeconds(zone, NaiveSeconds(dt)) - NaiveSeconds(dt))

MonthName ==
    <<"January", "February", "March", "April", "May", "June", "July",
      "August", "September", "October", "November", "December">>

\* datetime.strftime("%B %Y")
StrftimeBY(dt) == [month |-> MonthName[dt.month], year |-> dt.year]

\* get_date_range as it would be if the previous month always took the
\* current year
get_date_range_SameYear(zone, now, prev_month) ==
    IF prev_month
    THEN LET first_this_month == DateTime(now.year, now.month, 1)
             last_month_end == MinusSeconds(first_this_month, 1)
             last_month_start == DateTime(now.year, last_month_end.month, 1)
         IN  <<Timestamp(zone, last_month_start), Timestamp(zone, last_month_end)>>
    ELSE LET start_month == DateTime(now.year, now.month, 1)
         IN  <<Timestamp(zone, start_month), Timestamp(zone, now)>>

\* get_date_range(prev_month) on a host of the given zone, with the clock
\* reading now
get_date_range(zone, now, prev_month) ==
    IF prev_month
    THEN LET first_this_month == DateTime(now.year, now.month, 1)
             last_month_end == MinusSeconds(first_this_month, 1)
             last_month_start == DateTime(last_month_end.year, last_month_end.month, 1)
         IN  <<Timestamp(zone, last_month_start), Timestamp(zone, last_month_end)>>
    ELSE LET start_month == DateTime(now.year, now.month, 1)
         IN  <<Timestamp(zone, start_month), Timestamp(zone, now)>>

\* get_month_label(prev_month) with the clock reading now
get_month_label(now, prev_month) ==
    IF prev_month
    THEN LET first_this_month == DateTime(now.year, now.month, 1)
             last_month_end == MinusSeconds(first_this_month, 1)
         IN  StrftimeBY(last_month_end)
    ELSE StrftimeBY(now)

(***************************************************************************)
(* compute_95th: the percentile of one interface.                          *)
(***************************************************************************)
\* Mbps floats are held as integer multiples of 1/MbpsUnits Mbps
MbpsUnits == 25 * 1000000

\* Python's max(a, b) on two numbers
PyMax2(a, b) == IF b > a THEN b ELSE a

\* a row of the storage answer has a value in both of the first two columns
BothPresent(row) == row[1] # None /\ row[2] # None

\* the list as it would be if an absent value counted as zero
RECURSIVE CombinedValsZeroFill(_)
CombinedValsZeroFill(data) ==
    IF data = <<>> THEN <<>>
    ELSE LET row == Head(data)
             a == IF row[1] = None THEN 0 ELSE row[1][1]
             b == IF row[2] = None THEN 0 ELSE row[2][1]
         IN  <<PyMax2(a, b)>> \o CombinedValsZeroFill(Tail(data))

\* [max(row[in_idx], row[out_idx]) for row in data if both are not None]
RECURSIVE CombinedVals(_)
CombinedVals(data) ==
    IF data = <<>> THEN <<>>
    ELSE LET row == Head(data)
         IN  (IF BothPresent(row) THEN <<PyMax2(row[1][1], row[2][1])>> ELSE <<>>)
             \o CombinedVals(Tail(data))

\* a float64 result: u is the value the arithmetic aims at, in units of
\* 1/MbpsUnits Mbps; exact says the float is the double nearest to that value
\* (one correctly rounded operation), which interpolation does not promise
Float(u, exact) == [u |-> u, exact |-> exact]

\* np.array(vals) * 8 / 1e6
ToMbps(vals) ==
    [i \in 1..Len(vals) |-> Float((vals[i] * 8) * (MbpsUnits \div 1000000), TRUE)]

\* insert x into the ascending sequence s
RECURSIVE InsertSorted(_, _)
InsertSorted(x, s) ==
    IF s = <<>> THEN <<x>>
    ELSE IF x.u <= Head(s).u THEN <<x>> \o s
    ELSE <<Head(s)>> \o InsertSorted(x, Tail(s))

\* the ascending sort np.percentile works on
RECURSIVE SortAsc(_)
SortAsc(s) == IF s = <<>> THEN <<>> ELSE InsertSorted(Head(s), SortAsc(Tail(s)))

\* the percentile as it would be without interpolation (the lower rank)
np_percentile_Lower(a, q) ==
    LET sorted == SortAsc(a)
        lo == (q * (Len(a) - 1)) \div 100
    IN  sorted[lo + 1]

\* np.percentile(a, q), method "linear", a non-empty:
\* virtual index q/100*(n-1), interpolate between its floor and the next rank
np_percentile(a, q) ==
    LET sorted == SortAsc(a)
        n == Len(a)
        pos == q * (n - 1)
        lo == pos \div 100
        rem == pos % 100
        hi == Min(lo + 1, n - 1)
        a_lo == sorted[lo + 1]
        a_hi == sorted[hi + 1]
    IN  Float(a_lo.u + ((a_hi.u - a_lo.u) * rem) \div 100,
              a_lo.exact /\ a_hi.u = a_lo.u)

\* compute_95th(rrd_file, start_ts, end_ts), f being what rrdtool.fetch answers
\* for that file and window: it raises, or gives the DS names and the rows
compute_95th(f) ==
    IF f.raises THEN [ok |-> FALSE, err |-> "OperationalError"]
    ELSE IF Len(f.names) < 2 THEN [ok |-> FALSE, err |-> "ValueError"]
    ELSE LET combined_vals == CombinedVals(f.data)
         IN  IF combined_vals = <<>> THEN [ok |-> TRUE, val |-> Float(0, TRUE)]
             ELSE [ok |-> TRUE, val |-> np_percentile(ToMbps(combined_vals), 95)]

\* the double nearest to p/q (0 <= p, 0 < q) against p/q itself: 1 when the
\* double is the larger, -1 when it is the smaller, 0 when p/q is a double.
\* r/q is what is left below the bits taken so far, n the number of
\* significant bits still to take of the 53, last the lowest bit taken
RECURSIVE NearestDoubleBits(_, _, _, _, _)
NearestDoubleBits(r, q, n, started, last) ==
    IF r = 0 THEN 0
    ELSE IF n = 0
    THEN (IF 2 * r > q THEN 1
          ELSE IF 2 * r < q THEN -1
          ELSE IF last = 1 THEN 1 ELSE -1)
    ELSE LET d == (2 * r) \div q
             r2 == (2 * r) % q
         IN  IF ~started /\ d = 0
             THEN NearestDoubleBits(r2, q, n, FALSE, 0)
             ELSE NearestDoubleBits(r2, q, n - 1, TRUE, d)

RECURSIVE BitLength(_)
BitLength(i) == IF i = 0 THEN 0 ELSE 1 + BitLength(i \div 2)

NearestDouble(p, q) ==
    NearestDoubleBits(p % q, q, 53 - BitLength(p \div q), p >= q, (p \div q) % 2)

\* f"{val:.2f}": sign and hundredths of the two-decimal value nearest to the
\* float.  The float, not the value it stands for, is what is rounded: when
\* the value lies halfway between two hundredths, the side of it the nearest
\* double falls on decides, and the even neighbour only when the halfway
\* value is itself a double.  For a float that is not known to be the
\* nearest double either neighbour of a halfway value can come out.
Format2(val) ==
    LET a == IF val.u < 0 THEN -val.u ELSE val.u
        unit == MbpsUnits \div 100
        q == a \div unit
        r == a % unit
        side == NearestDouble(2 * q + 1, 200)
        ups == IF 2 * r # unit THEN {2 * r > unit}
               ELSE IF ~val.exact THEN BOOLEAN
               ELSE IF side = 0 THEN {q % 2 = 1}
               ELSE {side > 0}
    IN  { [sign |-> IF val.u < 0 THEN "-" ELSE "", cents |-> IF up THEN q + 1 ELSE q] :
            up \in ups }

(***************************************************************************)
(* load_customer_interfaces: the directory rows grouped by customer.       *)
(***************************************************************************)
\* the characters str.strip() removes: those str.isspace() is true of
IsSpace(c) ==
    c \in { "\t", "\n", "\\x0b", "\f", "\r", "\\x1c", "\\x1d", "\\x1e", "\\x1f", " ",
            "\\x85", "\\xa0", "\\u1680", "\\u2000", "\\u2001", "\\u2002", "\\u2003",
            "\\u2004", "\\u2005", "\\u2006", "\\u2007", "\\u2008", "\\u2009",
            "\\u200a", "\\u2028", "\\u2029", "\\u202f", "\\u205f", "\\u3000" }

RECURSIVE LStrip(_)
LStrip(s) == IF s # <<>> /\ IsSpace(Head(s)) THEN LStrip(Tail(s)) ELSE s

RECURSIVE RStrip(_)
RStrip(s) ==
    IF s # <<>> /\ IsSpace(Last(s)) THEN RStrip(SubSeq(s, 1, Len(s) - 1)) ELSE s

\* str.strip()
Strip(s) == RStrip(LStrip(s))

\* alias.split(":", 1): one piece without a colon, else the text before the
\* first colon and the text after it
SplitColonOnce(s) ==
    LET at == {i \in 1..Len(s) : s[i] = ":"}
    IN  IF at = {} THEN <<s>>
        ELSE LET i == CHOOSE j \in at : \A k \in at : j <= k
             IN  <<SubSeq(s, 1, i - 1), SubSeq(s, i + 1, Len(s))>>

\* cust_name of a row: alias.split(":", 1)[1].strip(), "Unknown" on IndexError
CustName(alias) ==
    LET parts == SplitColonOnce(alias)
    IN  IF Len(parts) < 2 THEN <<"U", "n", "k", "n", "o", "w", "n">>
        ELSE Strip(parts[2])

\* os.path.join(rrd_base, hostname, "port-<ifIndex>.rrd")
RrdFile(r) == [hostname |-> r.hostname, ifIndex |-> r.ifIndex]

\* the dict as it would be if a new key went first
DictAppendFront(d, name, rrd) ==
    IF \E i \in 1..Len(d) : d[i].name = name
    THEN LET i == CHOOSE j \in 1..Len(d) : d[j].name = name
         IN  [d EXCEPT ![i].rrds = Append(@, rrd)]
    ELSE <<[name |-> name, rrds |-> <<rrd>>]>> \o d

\* customers[name].append(rrd) on a defaultdict(list): a new key goes last
DictAppend(d, name, rrd) ==
    IF \E i \in 1..Len(d) : d[i].name = name
    THEN LET i == CHOOSE j \in 1..Len(d) : d[j].name = name
         IN  [d EXCEPT ![i].rrds = Append(@, rrd)]
    ELSE Append(d, [name |-> name, rrds |-> <<rrd>>])

\* the pass as it would be without the os.path.exists test
LoadRowNoCheck(acc, r, fs) ==
    [acc EXCEPT !.customers = DictAppend(@, CustName(r.ifAlias), RrdFile(r))]

\* one pass of the loop over the rows: the row is kept when its file exists
LoadRow(acc, r, fs) ==
    IF RrdFile(r) \in fs
    THEN [acc EXCEPT !.customers = DictAppend(@, CustName(r.ifAlias), RrdFile(r))]
    ELSE [acc EXCEPT !.out = Append(@, [kind |-> "rrd_not_found",
                                         alias |-> r.ifAlias, rrd |-> RrdFile(r)])]

RECURSIVE LoadRows(_, _, _)
LoadRows(acc, rs, fs) ==
    IF rs = <<>> THEN acc ELSE LoadRows(LoadRow(acc, Head(rs), fs), Tail(rs), fs)

\* load_customer_interfaces, rs being what the query returned and fs the
\* existing files: the customers and what was printed
load_customer_interfaces(rs, fs) ==
    IF rs = <<>>
    THEN [customers |-> <<>>, out |-> <<[kind |-> "no_interfaces"]>>]
    ELSE LoadRows([customers |-> <<>>, out |-> <<>>], rs, fs)

(***************************************************************************)
(* Inputs.                                                                 *)
(***************************************************************************)
SeqsUpTo(S, n) == UNION {[1..k -> S] : k \in 0..n}

\* ifAlias values that the query's REGEXP '^[Cc]ust:' lets through
Aliases ==
    { <<"c", "u", "s", "t", ":", " ", "\\xa0", "A", "\r">>,
      <<"C", "u", "s", "t", ":", "B">> }

\* query results: the k-th row is port k of one device
RowSeqs ==
    { [k \in 1..Len(as) |-> [ifIndex |-> k, ifAlias |-> as[k], hostname |-> "r1"]] :
        as \in SeqsUpTo(Aliases, MaxRows) }

RowFiles(rs) == {RrdFile(rs[k]) : k \in 1..Len(rs)}

\* raw rates, bytes per second
Rates == {0, 625, 50000}
Cells == {None} \cup {Some(x) : x \in Rates}

DsNames == <<"INOCTETS", "OUTOCTETS", "INERRORS">>

\* rows of a storage answer with n data sources (a third one is a gap); a
\* lone compute_95th call is tried on the answer that raises and on every
\* answer of 1 to 3 data sources and up to MaxSamples such rows
DataRows(n) ==
    IF n = 1 THEN {<<c>> : c \in Cells}
    ELSE IF n = 2 THEN Cells \X Cells
    ELSE {<<c[1], c[2], None>> : c \in Cells \X Cells}

FetchRaises == [raises |-> TRUE, names |-> <<>>, data |-> <<>>]
FetchOf(n, data) == [raises |-> FALSE, names |-> SubSeq(DsNames, 1, n), data |-> data]

\* answers of rrdtool.fetch tried inside a run of main
MainFetchAnswers ==
    { FetchRaises,
      FetchOf(1, << <<Some(25000)>> >>),
      FetchOf(2, << <<None, Some(50000)>> >>),
      FetchOf(2, << <<Some(625), Some(0)>> >>),
      FetchOf(2, << <<Some(0), Some(25000)>>, <<Some(50000), Some(0)>> >>),
      FetchOf(2, << <<Some(-25000), Some(-50000)>> >>) }

\* local dates and times of day tried for the period functions
SystemDates ==
    UNION { { [year |-> y, month |-> m, day |-> d, sod |-> s, fold |-> 0] :
                d \in {1, 15, DaysInMonth(y, m)}, s \in {0, 43200, 86399} } :
            y \in YearLo..(YearLo + YearSpan), m \in 1..12 }

\* instants around the zone's changes of offset: the second before and the
\* second of each change, and the middle of both passes of the repeated hour
ChangeInstants(zone) ==
    IF zone = "UTC" THEN {}
    ELSE UNION { { DstStart(zone, y) - 1, DstStart(zone, y),
                   DstEnd(zone, y) - 1800, DstEnd(zone, y) - 1,
                   DstEnd(zone, y), DstEnd(zone, y) + 1800 } :
                 y \in YearLo..(YearLo + YearSpan) }

\* instants of the system clock tried for the period functions on a host of
\* the zone
SystemInstants(zone) ==
    {Timestamp(zone, d) : d \in SystemDates} \cup ChangeInstants(zone)

\* local time tried for the start of a whole run: the last second of a month
MainDates == { [year |-> 2025, month |-> 8, day |-> 31, sod |-> 86399, fold |-> 0] }

\* instants of the system clock tried for the start of a whole run
MainClocks(zone) == {Timestamp(zone, d) : d \in MainDates}

\* time zone of the host for a whole run
MainZones == {"UTC"}

(***************************************************************************)
(* main                                                                    *)
(***************************************************************************)
Idle ==
    /\ ticks = 0 /\ start_ts = None /\ end_ts = None /\ month_label = None
    /\ rows = <<>> /\ files = {} /\ customers = <<>> /\ ci = 0 /\ ri = 0
    /\ combined_samples = <<>> /\ lines = <<>> /\ outcomes = <<>>
    /\ stdout = <<>> /\ stderr = <<>> /\ mail = <<>> /\ exit_code = None
    /\ fetch = None /\ ret = None

Init ==
    /\ pc = "range"
    /\ prev \in BOOLEAN
    /\ tz \in MainZones
    /\ clock \in MainClocks(tz)
    /\ Idle

\* main line 131: start_ts, end_ts = get_date_range(args.prev)
GetDateRange ==
    /\ pc = "range"
    /\ start_ts' = Some(get_date_range(tz, Now(tz, clock), prev)[1])
    /\ end_ts' = Some(get_date_range(tz, Now(tz, clock), prev)[2])
    /\ pc' = "label"
    /\ UNCHANGED <<prev, clock, tz, ticks, month_label, rows, files, customers, ci,
                   ri, combined_samples, lines, outcomes, stdout, stderr, mail,
                   exit_code, fetch, ret>>

\* the system clock advances by a second between the two calls that read it
Tick ==
    /\ pc = "label"
    /\ ticks < MaxTicks
    /\ clock' = clock + 1
    /\ ticks' = ticks + 1
    /\ UNCHANGED <<pc, prev, tz, start_ts, end_ts, month_label, rows, files,
                   customers, ci, ri, combined_samples, lines, outcomes, stdout,
                   stderr, mail, exit_code, fetch, ret>>

\* main line 132: month_label = get_month_label(args.prev)
GetMonthLabel ==
    /\ pc = "label"
    /\ month_label' = Some(get_month_label(Now(tz, clock), prev))
    /\ pc' = "load"
    /\ UNCHANGED <<prev, clock, tz, ticks, start_ts, end_ts, rows, files, customers,
                   ci, ri, combined_samples, lines, outcomes, stdout, stderr, mail,
                   exit_code, fetch, ret>>

\* main lines 134-141: the directory lookup, then the exit when nothing is left
LoadCustomers ==
    /\ pc = "load"
    /\ \E rs \in RowSeqs : \E fs \in SUBSET RowFiles(rs) :
         LET got == load_customer_interfaces(rs, fs)
         IN  /\ rows' = rs
             /\ files' = fs
             /\ customers' = got.customers
             /\ IF got.customers = <<>>
                THEN /\ stdout' = stdout \o got.out \o <<[kind |-> "no_customers"]>>
                     /\ pc' = "done"
                     /\ exit_code' = Some(0)
                     /\ UNCHANGED <<ci, ri>>
                ELSE /\ stdout' = stdout \o got.out
                     /\ pc' = "loop"
                     /\ ci' = 1
                     /\ ri' = 1
                     /\ UNCHANGED exit_code
    /\ UNCHANGED <<prev, clock, tz, ticks, start_ts, end_ts, month_label,
                   combined_samples, lines, outcomes, stderr, mail, fetch, ret>>

\* exceptions main lines 134-135 let through: load_observium_db_config cannot
\* open or parse config.php, mysql.connector.connect is refused, the query
\* fails
LoadErrors == {"FileNotFoundError", "AttributeError", "mysql.connector.Error"}

\* main lines 134-135 when one of them raises: nothing catches the exception,
\* the interpreter writes the traceback to stderr and exits with status 1;
\* nothing has been printed
LoadCustomersRaises ==
    /\ pc = "load"
    /\ \E exc \in LoadErrors : stderr' = Append(stderr, [kind |-> "traceback", exc |-> exc])
    /\ pc' = "done"
    /\ exit_code' = Some(1)
    /\ UNCHANGED <<prev, clock, tz, ticks, start_ts, end_ts, month_label, rows, files,
                   customers, ci, ri, combined_samples, lines, outcomes, stdout,
                   mail, fetch, ret>>

\* Python's max(a, b) on two floats; of two floats standing for one value the
\* result is known to be the nearest double only when both are
FloatMax2(a, b) ==
    IF b.u > a.u THEN b
    ELSE IF a.u > b.u THEN a
    ELSE Float(a.u, a.exact /\ b.exact)

\* Python's max() of a non-empty list of floats
RECURSIVE PyMax(_)
PyMax(s) == IF Len(s) = 1 THEN s[1] ELSE FloatMax2(s[1], PyMax(Tail(s)))

RECURSIVE SumSeq(_)
SumSeq(s) == IF s = <<>> THEN 0 ELSE Head(s).u + SumSeq(Tail(s))

\* the figure as it would be if the percentiles were added up
Val95Sum(samples) == Float(SumSeq(samples), Len(samples) <= 1)

\* main lines 150-153: the customer's figure from its computed percentiles
Val95(samples) == IF samples # <<>> THEN PyMax(samples) ELSE Float(0, TRUE)

\* combined_samples as it would be if a failure discarded the values so far
AfterComputeReset(samples, r) == IF r.ok THEN Append(samples, r.val) ELSE <<>>

\* main lines 145-149: combined_samples after one interface
AfterCompute(samples, r) == IF r.ok THEN Append(samples, r.val) ELSE samples

\* main line 154: the line with one rendering of the figure
ReportLine(name, text) == [name |-> name, mbps |-> text]

\* main lines 156-157
Report(label, ls) == [header |-> label, lines |-> ls]

\* exception main line 160 lets through when the mail server is not there
SmtpErrors == {"ConnectionRefusedError"}

\* main lines 142-162: one interface of the customer loop; after the
\* customer's last interface its line is appended, and after the last
\* customer the report is e-mailed or printed and main returns.  When
\* send_email raises, nothing catches it: the report is neither sent nor
\* printed, the traceback goes to stderr and the exit status is 1.
LoopStep ==
    /\ pc = "loop"
    /\ \E f \in MainFetchAnswers :
         LET cust == customers[ci]
             rrd == cust.rrds[ri]
             r == compute_95th(f)
             samples == AfterCompute(combined_samples, r)
             lastRrd == ri = Len(cust.rrds)
             lastCust == ci = Len(customers)
             out == IF r.ok THEN stdout
                    ELSE Append(stdout, [kind |-> "error_reading",
                                         rrd |-> rrd, err |-> r.err])
         IN  /\ outcomes' =
                  (IF ri = 1 THEN Append(outcomes, <<[fetch |-> f, ret |-> r]>>)
                   ELSE [outcomes EXCEPT ![ci] = Append(@, [fetch |-> f, ret |-> r])])
             /\ combined_samples' = (IF lastRrd /\ ~lastCust THEN <<>> ELSE samples)
             /\ ri' = (IF lastRrd /\ ~lastCust THEN 1 ELSE IF lastRrd THEN ri ELSE ri + 1)
             /\ ci' = (IF lastRrd /\ ~lastCust THEN ci + 1 ELSE ci)
             /\ IF lastRrd
                THEN \E text \in Format2(Val95(samples)) :
                         lines' = Append(lines, ReportLine(cust.name, text))
                ELSE lines' = lines
             /\ IF lastRrd /\ lastCust
                THEN /\ \/ /\ mail' = Append(mail, [subject |-> month_label[1],
                                                     body |-> Report(month_label[1], lines')])
                           /\ stdout' = out
                           /\ exit_code' = Some(0)
                           /\ UNCHANGED stderr
                        \/ /\ \E exc \in SmtpErrors :
                                stderr' = Append(stderr, [kind |-> "traceback", exc |-> exc])
                           /\ stdout' = out
                           /\ exit_code' = Some(1)
                           /\ UNCHANGED mail
                        \/ /\ stdout' = Append(out, [kind |-> "report",
                                                     body |-> Report(month_label[1], lines')])
                           /\ exit_code' = Some(0)
                           /\ UNCHANGED <<mail, stderr>>
                     /\ pc' = "done"
                ELSE /\ stdout' = out
                     /\ UNCHANGED <<pc, mail, stderr, exit_code>>
    /\ UNCHANGED <<prev, clock, tz, ticks, start_ts, end_ts, month_label, rows, files,
                   customers, fetch, ret>>

Next ==
    \/ GetDateRange
    \/ Tick
    \/ GetMonthLabel
    \/ LoadCustomers
    \/ LoadCustomersRaises
    \/ LoopStep

Spec == Init /\ [][Next]_vars

(***************************************************************************)
(* The period functions alone, over many system dates.                     *)
(***************************************************************************)
InitDate ==
    /\ pc = "range"
    /\ prev \in BOOLEAN
    /\ tz \in Zones
    /\ clock \in SystemInstants(tz)
    /\ Idle

NextDate == GetDateRange \/ GetMonthLabel

SpecDate == InitDate /\ [][NextDate]_vars

(***************************************************************************)
(* compute_95th alone, over many storage answers.                          *)
(***************************************************************************)
InitPct ==
    /\ pc = "call"
    /\ prev = FALSE
    /\ tz \in MainZones
    /\ clock \in MainClocks(tz)
    /\ ticks = 0 /\ start_ts = None /\ end_ts = None /\ month_label = None
    /\ rows = <<>> /\ files = {} /\ customers = <<>> /\ ci = 0 /\ ri = 0
    /\ combined_samples = <<>> /\ lines = <<>> /\ outcomes = <<>>
    /\ stdout = <<>> /\ stderr = <<>> /\ mail = <<>> /\ exit_code = None
    /\ \/ fetch = Some(FetchRaises)
       \/ \E n \in 1..3 : \E k \in 0..MaxSamples : \E d \in [1..k -> DataRows(n)] :
             fetch = Some(FetchOf(n, d))
    /\ ret = None

\* val = compute_95th(rrd, start_ts, end_ts)
Compute95thCall ==
    /\ pc = "call"
    /\ ret' = Some(compute_95th(fetch[1]))
    /\ pc' = "returned"
    /\ UNCHANGED <<prev, clock, tz, ticks, start_ts, end_ts, month_label, rows, files,
                   customers, ci, ri, combined_samples, lines, outcomes, stdout,
                   stderr, mail, exit_code, fetch>>

NextPct == Compute95thCall

SpecPct == InitPct /\ [][NextPct]_vars

(***************************************************************************)
(* Properties of compute_95th (checked under SpecPct).                     *)
(***************************************************************************)
Range(s) == {s[i] : i \in 1..Len(s)}

\* the rows of the answer with a value in both directions
ValidRows == SelectSeq(fetch[1].data, LAMBDA row : row[1] # None /\ row[2] # None)

\* the call returned (or raised) and the answer had at least two data sources
Answered == pc = "returned" /\ ~fetch[1].raises /\ Len(fetch[1].names) >= 2

\* the larger direction of a row, in Mbps: one Mbps is 125000 bytes per second
RowMbps(row) ==
    (IF row[1][1] >= row[2][1] THEN row[1][1] ELSE row[2][1]) * (MbpsUnits \div 125000)

RowMbpsOf(rs) == [i \in 1..Len(rs) |-> RowMbps(rs[i])]

\* the k-th order statistic (k from 0) of the values of xs, by rank
OrderStat(xs, k) ==
    CHOOSE v \in Range(xs) :
        /\ Cardinality({i \in 1..Len(xs) : xs[i] < v}) <= k
        /\ k < Cardinality({i \in 1..Len(xs) : xs[i] <= v})

\* C3: a row with the in value or the out value absent is left out of the
\* percentile input and never counted as zero: the result on any rows equals
\* the result on the rows with both directions present, and one valid sample
\* among gap rows gives exactly that sample's value.
C3_GapRowsExcluded ==
    Answered =>
        /\ ret[1] = compute_95th([fetch[1] EXCEPT !.data = ValidRows])
        /\ Len(ValidRows) = 1 =>
              ret[1] = [ok |-> TRUE, val |-> Float(RowMbps(ValidRows[1]), TRUE)]

\* C3 witness: one valid sample with traffic, two gap rows, one of them with a
\* value in one direction only
C3_Witness ==
    /\ Answered
    /\ Len(ValidRows) = 1
    /\ Len(fetch[1].data) = 3
    /\ RowMbps(ValidRows[1]) > 0
    /\ \E i \in 1..3 : fetch[1].data[i][1] = None /\ fetch[1].data[i][2] = Some(50000)
    /\ ret[1].val.u = RowMbps(ValidRows[1])

\* C4: on rows with both directions present the result is the 95th percentile
\* by linear interpolation between the order statistics around index
\* 0.95*(n-1) of the values max(in, out)*8/1000000; one row gives its own
\* value, equal rows give that value; with no such row the result is 0.0 and
\* nothing is raised.
C4_LinearPercentileOfMax ==
    Answered =>
        LET xs == RowMbpsOf(ValidRows)
            n == Len(xs)
            pos == 95 * (n - 1)
            lo == pos \div 100
            rem == pos % 100
            up == IF rem = 0 THEN lo ELSE lo + 1
        IN  /\ ret[1].ok
            /\ n = 0 => ret[1].val = Float(0, TRUE)
            /\ n > 0 => 100 * ret[1].val.u =
                          (100 - rem) * OrderStat(xs, lo) + rem * OrderStat(xs, up)
            /\ n = 1 => ret[1].val = Float(xs[1], TRUE)
            /\ (n > 0 /\ \A i \in 1..n : xs[i] = xs[1]) => ret[1].val = Float(xs[1], TRUE)

\* C4 witness: three valid rows, not in ascending order, whose result lies
\* strictly between the two largest values
C4_Witness ==
    /\ Answered
    /\ Len(ValidRows) = 3
    /\ RowMbps(ValidRows[1]) > RowMbps(ValidRows[2])
    /\ \E i, j \in 1..3 : /\ RowMbps(ValidRows[i]) < ret[1].val.u
                          /\ ret[1].val.u < RowMbps(ValidRows[j])
    /\ \E i \in 1..3 : ValidRows[i][1][1] < ValidRows[i][2][1]

(***************************************************************************)
(* Properties of the period functions (checked under SpecDate).            *)
(***************************************************************************)
\* the local calendar date and second of day at which the timestamp ts falls
\* on a host in the zone
FromTimestamp(zone, ts) == Now(zone, ts)

\* C9: in previous mode, for every system date and in the host's local time,
\* startTs is the first instant of the previous calendar month, endTs is one
\* second before the first instant of the current month, and the label names
\* that previous month and its year (run on 2025-09-15: 2025-08-01T00:00:00
\* to 2025-08-31T23:59:59, "August 2025").  The window is as many days long
\* as the month has, less what the zone's offset gained over the month.
C9_PreviousMonthWindow ==
    (pc = "load" /\ prev) =>
        LET y == Now(tz, clock).year
            m == Now(tz, clock).month
            py == IF m = 1 THEN y - 1 ELSE y
            pm == IF m = 1 THEN 12 ELSE m - 1
            startDt == FromTimestamp(tz, start_ts[1])
            endDt == FromTimestamp(tz, end_ts[1])
        IN  /\ startDt = [year |-> py, month |-> pm, day |-> 1, sod |-> 0, fold |-> 0]
            /\ endDt = [year |-> py, month |-> pm, day |-> DaysInMonth(py, pm),
                        sod |-> 86399, fold |-> 0]
            /\ FromTimestamp(tz, end_ts[1] + 1) = DateTime(y, m, 1)
            /\ end_ts[1] + 1 - start_ts[1] =
                  86400 * DaysInMonth(py, pm)
                    - (UtcOffset(tz, end_ts[1]) - UtcOffset(tz, start_ts[1]))
            /\ month_label[1] = [month |-> MonthName[pm], year |-> py]
            /\ (y = 2025 /\ m = 9) =>
                  /\ tz = "UTC" => start_ts[1] = 1754006400 /\ end_ts[1] = 1756684799
                  /\ tz = "Europe/London" =>
                        start_ts[1] = 1754002800 /\ end_ts[1] = 1756681199
                  /\ tz = "America/New_York" =>
                        start_ts[1] = 1754020800 /\ end_ts[1] = 1756699199
                  /\ month_label[1] = [month |-> "August", year |-> 2025]
            /\ (y = 2025 /\ m = 4 /\ tz = "Europe/London") =>
                  /\ start_ts[1] = 1740787200 /\ end_ts[1] = 1743461999
                  /\ end_ts[1] + 1 - start_ts[1] = 2674800

\* C9 witness: a run in January on a host west of Greenwich, whose previous
\* month is December of the year before
C9_Witness ==
    /\ pc = "load" /\ prev
    /\ tz = "America/New_York"
    /\ Now(tz, clock).month = 1
    /\ month_label[1].month = "December"
    /\ month_label[1].year = Now(tz, clock).year - 1
    /\ FromTimestamp(tz, start_ts[1]).year = Now(tz, clock).year - 1
    /\ NaiveDateTime(start_ts[1]).sod = 18000

(***************************************************************************)
(* Properties of a run of main (checked under Spec).                       *)
(***************************************************************************)
\* the percentiles of the interfaces of customer c whose compute_95th returned
OkVals(c) ==
    {outcomes[c][k].ret.val.u : k \in {j \in 1..Len(outcomes[c]) : outcomes[c][j].ret.ok}}

MaxOfSet(S) == CHOOSE m \in S : \A x \in S : x <= m

\* the orders of n interfaces, n up to the number of rows
AllIndexOrders ==
    [n \in 0..MaxRows |->
        {f \in [1..n -> 1..n] : \A i, j \in 1..n : f[i] = f[j] => i = j}]

IndexOrders(n) == AllIndexOrders[n]

\* combined_samples after the interfaces of a customer gave, in this order,
\* the outcomes os
RECURSIVE SamplesOf(_)
SamplesOf(os) ==
    IF os = <<>> THEN <<>>
    ELSE AfterCompute(SamplesOf(SubSeq(os, 1, Len(os) - 1)), Last(os).ret)

\* the figure of such a customer
FigureOf(os) == Val95(SamplesOf(os))

\* text is the value u to two decimals, a value halfway between two
\* hundredths going to either
Rounds(text, u) == text \in Format2(Float(u, FALSE))

\* the reports that left the program, on standard output or by e-mail
Delivered ==
    {stdout[i].body : i \in {j \in 1..Len(stdout) : stdout[j].kind = "report"}}
    \cup {mail[i].body : i \in 1..Len(mail)}

ZeroMbps == [sign |-> "", cents |-> 0]

\* C1: the figure printed for a customer is the maximum of the percentiles of
\* its interfaces whose compute_95th returned (not their sum or mean), to two
\* decimals, and it is the same for every order of the customer's interfaces.
C1_MaxOfInterfacePercentiles ==
    \A c \in 1..Len(lines) :
        LET figure == FigureOf(outcomes[c])
        IN  /\ OkVals(c) # {} => figure.u = MaxOfSet(OkVals(c))
            /\ Rounds(lines[c].mbps, figure.u)
            /\ \A p \in IndexOrders(Len(outcomes[c])) :
                  FigureOf([k \in 1..Len(outcomes[c]) |-> outcomes[c][p[k]]]) = figure

\* C1 witness: a finished run with a customer of three interfaces, one failed
\* and two with different percentiles, the larger one not being the last
C1_Witness ==
    /\ pc = "done"
    /\ \E c \in 1..Len(lines) :
          /\ Len(outcomes[c]) = 3
          /\ Cardinality(OkVals(c)) = 2
          /\ outcomes[c][3].ret.ok
          /\ outcomes[c][3].ret.val.u # MaxOfSet(OkVals(c))
          /\ MaxOfSet(OkVals(c)) = 39 * (MbpsUnits \div 100)
          /\ lines[c].mbps = [sign |-> "", cents |-> 39]

\* the customer loop under failing interfaces: the values computed so far are
\* kept, every interface of every customer is processed, and each customer
\* gets exactly one line (0.00 Mbps when all its interfaces failed)
LoopRunsThrough ==
    /\ pc # "done" => exit_code = None
    /\ pc = "loop" =>
          /\ Len(lines) = ci - 1
          /\ IF ri = 1 THEN Len(outcomes) = ci - 1 /\ combined_samples = <<>>
             ELSE /\ Len(outcomes) = ci
                  /\ Len(outcomes[ci]) = ri - 1
                  /\ {combined_samples[i].u : i \in 1..Len(combined_samples)} = OkVals(ci)
                  /\ Len(combined_samples) =
                       Cardinality({k \in 1..(ri - 1) : outcomes[ci][k].ret.ok})
    /\ (pc = "done" /\ customers # <<>>) =>
          /\ Len(lines) = Len(customers)
          /\ Len(outcomes) = Len(customers)
          /\ \A c \in 1..Len(customers) :
                /\ Len(outcomes[c]) = Len(customers[c].rrds)
                /\ lines[c].name = customers[c].name
                /\ OkVals(c) = {} => lines[c].mbps = ZeroMbps
                /\ OkVals(c) # {} => Rounds(lines[c].mbps, MaxOfSet(OkVals(c)))

\* send_email raised at the end of the run
MailFailed == \E i \in 1..Len(stderr) : stderr[i].exc \in SmtpErrors

\* C2 (as claimed): a failing interface never aborts the run: the values
\* computed so far are kept, every interface of every customer is processed,
\* each customer gets exactly one line (0.00 Mbps when all its interfaces
\* failed), and the run ends with exit code zero and the report delivered.
C2_InterfaceFailureNotFatal ==
    /\ LoopRunsThrough
    /\ (pc = "done" /\ customers # <<>>) =>
          /\ exit_code = Some(0)
          /\ Delivered = {[header |-> month_label[1], lines |-> lines]}

\* C2 (amended): a failing interface never aborts the run: the values computed
\* so far are kept, every interface of every customer is processed, each
\* customer gets exactly one line (0.00 Mbps when all its interfaces failed),
\* and the run ends with exit code zero and the report delivered, unless
\* sending the e-mail raises: the run then ends after the whole loop, with
\* exit code 1 and no report delivered.
C2_InterfaceFailureNotFatalUnlessMailFails ==
    /\ LoopRunsThrough
    /\ (pc = "done" /\ customers # <<>>) =>
          IF MailFailed
          THEN /\ exit_code = Some(1)
               /\ Delivered = {}
               /\ Len(stderr) = 1
          ELSE /\ exit_code = Some(0)
               /\ Delivered = {[header |-> month_label[1], lines |-> lines]}
               /\ stderr = <<>>

\* C2 witness: a finished run where the first customer's only interface
\* failed, and the second customer had a value, then a failure
C2_Witness ==
    /\ pc = "done"
    /\ Len(customers) = 2
    /\ OkVals(1) = {}
    /\ lines[1].mbps = ZeroMbps
    /\ Len(outcomes[2]) = 2
    /\ outcomes[2][1].ret.ok /\ outcomes[2][1].ret.val.u = MbpsUnits \div 200
    /\ ~outcomes[2][2].ret.ok /\ outcomes[2][2].ret.err = "ValueError"
    /\ lines[2].mbps = [sign |-> "", cents |-> 1]
    /\ exit_code = Some(0)
    /\ Delivered # {}

\* C5 (as claimed): when no customer group is left after the directory lookup
\* and the file filter, the run ends with a non-zero exit code and no report
\* is printed or e-mailed.
C5_NoCustomersIsFatal ==
    (pc = "done" /\ customers = <<>> /\ stderr = <<>>) =>
        /\ exit_code # Some(0)
        /\ Delivered = {}

\* a storage answer holds a negative rate in one of the two directions
HasNegativeRate(f) ==
    ~f.raises /\ Len(f.names) >= 2 /\
    \E i \in 1..Len(f.data) : \E d \in 1..2 :
        f.data[i][d] # None /\ f.data[i][d][1] < 0

\* C6 (as claimed): a negative rate makes the interface's computation fail,
\* so that the figure of every reported customer is >= 0.
C6_NegativeRateRejected ==
    /\ \A c \in 1..Len(outcomes) : \A k \in 1..Len(outcomes[c]) :
          HasNegativeRate(outcomes[c][k].fetch) => ~outcomes[c][k].ret.ok
    /\ \A c \in 1..Len(lines) : lines[c].mbps.sign = ""

\* the rows whose data file exists
KeptRows == {k \in 1..Len(rows) : RrdFile(rows[k]) \in files}

\* the customer name of every alias the directory can return
NameOfAlias == [a \in Aliases |-> CustName(a)]

\* the customer name of every directory row
RowNames == [k \in 1..Len(rows) |-> NameOfAlias[rows[k].ifAlias]]

NameOfRow(k) == RowNames[k]

\* the names of the customers with at least one kept row
KeptNames == {RowNames[k] : k \in KeptRows}

\* the directory lookup is over and did not raise
Loaded ==
    /\ pc \in {"loop", "done"}
    /\ ~\E i \in 1..Len(stderr) : stderr[i].exc \in LoadErrors

\* C7: the report has exactly one line for each customer name with at least
\* one row whose data file exists and no line for any other customer, and each
\* kept interface is in exactly one customer group.
C7_OneLinePerCustomerWithData ==
    LET names == RowNames
        kept == KeptRows
        keptNames == {names[k] : k \in kept}
    IN
    /\ Loaded =>
          /\ {customers[c].name : c \in 1..Len(customers)} = keptNames
          /\ Len(customers) = Cardinality(keptNames)
          /\ \A c \in 1..Len(customers) : customers[c].name \in {<<"A">>, <<"B">>}
          /\ \A k \in kept :
                Cardinality({t \in {u \in (1..Len(customers)) \X (1..Len(rows)) :
                                       u[2] <= Len(customers[u[1]].rrds)} :
                               customers[t[1]].rrds[t[2]] = RrdFile(rows[k])}) = 1
          /\ \A c \in 1..Len(customers) :
                /\ customers[c].rrds # <<>>
                /\ \A j \in 1..Len(customers[c].rrds) :
                      \E k \in kept : /\ customers[c].rrds[j] = RrdFile(rows[k])
                                      /\ customers[c].name = names[k]
    /\ \A b \in Delivered :
          /\ {b.lines[i].name : i \in 1..Len(b.lines)} = keptNames
          /\ Len(b.lines) = Cardinality(keptNames)
    /\ (pc = "done" /\ exit_code = Some(0) /\ kept # {}) => Delivered # {}

\* C7 witness: a delivered report with one line for a customer with two kept
\* interfaces, while the directory also returned a row of another customer
\* whose data file is missing
C7_Witness ==
    /\ pc = "done"
    /\ Len(rows) = 3
    /\ \E b \in Delivered : Len(b.lines) = 1 /\ b.lines[1].name = <<"A">>
    /\ \E k \in 1..3 : k \notin KeptRows /\ NameOfRow(k) = <<"B">>
    /\ Cardinality(KeptRows) = 2

\* the first row naming the customer, and the first kept row naming it
FirstIn(S, names, name) == CHOOSE k \in S :
    /\ names[k] = name
    /\ \A j \in S : names[j] = name => k <= j

FirstSeen(name) == FirstIn(1..Len(rows), RowNames, name)

FirstKept(name) == FirstIn(KeptRows, RowNames, name)

\* the lines ls are in the order of first appearance of their names among
\* the rows S
InOrderOfFirst(ls, S) ==
    LET names == RowNames
        at == [i \in 1..Len(ls) |-> FirstIn(S, names, ls[i].name)]
    IN  \A i, j \in 1..Len(ls) : at[i] < at[j] => i < j

\* C8 (as claimed): the customer lines are in the order in which the names
\* are first seen among the directory rows, whichever rows were kept or
\* dropped.
C8_FirstSeenOrder ==
    \A b \in Delivered : InOrderOfFirst(b.lines, 1..Len(rows))

\* C8 (amended): the customer lines are in the order in which each name is
\* first seen among the directory rows whose data file exists.
C8_FirstKeptOrder ==
    /\ InOrderOfFirst(lines, KeptRows)
    /\ \A b \in Delivered : InOrderOfFirst(b.lines, KeptRows)

\* C8 witness: a delivered report of two customers where the second one's
\* name came first in the directory, in a row whose file is missing
C8_Witness ==
    /\ pc = "done"
    /\ \E b \in Delivered :
          /\ Len(b.lines) = 2
          /\ FirstSeen(b.lines[2].name) < FirstSeen(b.lines[1].name)
          /\ FirstKept(b.lines[1].name) < FirstKept(b.lines[2].name)

\* C10 (as claimed): the month the label names is the calendar month that
\* contains startTs, also when the clock advances between the two clock reads.
C10_LabelNamesWindowMonth ==
    pc \in {"load", "loop", "done"} =>
        month_label[1] = StrftimeBY(FromTimestamp(tz, start_ts[1]))

====
